---------------------------- MODULE Spec2Model ----------------------------
(***************************************************************************)
(* State-machine model of ProgramManager.dqn_training_process and          *)
(* ProgramManager.evaluate_avg_time_step (src/main_processes.py).          *)
(*                                                                         *)
(* Representation of numbers:                                              *)
(*   - rewards and regression targets y are held in tenths (1.0 = 10);     *)
(*     gamma is held in tenths as well (0.9 = 9), Q-values in whole units, *)
(*     so y = reward + gamma * q is  reward10 + gamma10 * q;               *)
(*   - epsilon, init_e and final_e are held in fixed-point units; the      *)
(*     quotient (init_e - final_e) / exploration is rounded to the nearest *)
(*     unit, as the float division of the code rounds to the nearest       *)
(*     representable value;                                                *)
(*   - fitness values (avg_time_step, best_time_step, the time_step field  *)
(*     of a checkpoint) are held in units of 1/test_episode_num, so the    *)
(*     mean of test_episode_num integer step counts is exact.              *)
(***************************************************************************)
EXTENDS Integers, Sequences, FiniteSets, TLC

\* ------------------------------------------------------------------ bounds
\* last episode index of a run (training_setting.max_episode)
MaxEpisode == 2
\* the training environment returns terminal at the latest at this step of an episode
MaxSteps == 3
\* the evaluation environment returns terminal at the latest at this step of a test episode
MaxEvalSteps == 2
\* largest test_model_freq and save_checkpoint_freq tried
MaxGate == 3
\* largest update_target_qnetwork_freq tried
MaxFreq == 3
\* largest init_e and final_e tried, in fixed-point units
MaxEps == 3
\* largest decay horizon (training_setting.exploration) tried
MaxExploration == 3
\* largest warm-up length (training_setting.observation) tried
MaxObservation == 2
\* largest batch_size tried
MaxBatch == 2
\* largest memory_size tried
MaxMemory == 2
\* number of pixels of the images tried
ImagePixels == 3
\* largest gray value of a pixel tried (of the scale 0..255)
MaxGray == 3

\* --------------------------------------------------------- program constants
\* default of evaluate_avg_time_step's parameter test_episode_num
test_episode_num == 2

None == "None"

\* value of a number-valued variable that holds no number yet (a local that is not
\* assigned yet, the exit status of a running process); no number of the model
\* comes near it
Unbound == -1000

\* a model_path at which file_handler.load finds nothing it can load
Unreadable == [load_error |-> TRUE]

\* value of the local checkpoint while no checkpoint was loaded
NoCheckpoint == [unbound |-> TRUE]

\* ------------------------------------------------------------------- state
VARIABLES
    training_setting,     \* self.training_setting
    model_file,           \* what file_handler.load(model_path) finds on disk
    pc,                   \* position in dqn_training_process / evaluate_avg_time_step
    exit_code,            \* sys.exit status, Unbound while the process runs
    error_log,            \* number of messages emitted at level 'error'
    checkpoint,           \* the loaded checkpoint mapping, NoCheckpoint if none was loaded
    best_time_step,       \* local best_time_step
    variable_params,      \* variable_qnetwork.net parameters: number of optimizer steps applied
    target_params,        \* target_qnetwork.net parameters (a copy of variable_params), Unbound before the first copy
    memory,               \* variable_qnetwork.memory: sequence of stored transitions, oldest first
    time_step,            \* variable_qnetwork.time_step (the same agent object is passed to evaluation)
    i,                    \* warm-up loop counter
    epsilon,              \* local epsilon, Unbound before the training loop
    episode,              \* loop variable of the training loop, -1 before its first value
    terminal,             \* local terminal: the flag returned by the last frame_step of the training
                          \* environment, which is built once (line 134) and never built again
    eval_terminal,        \* the flag last returned by the environment evaluate_avg_time_step builds
                          \* (line 349), FALSE while it was not stepped
    avg_time_step,        \* local avg_time_step, Unbound before the first evaluation
    checkpoint_saved,     \* local flag of the end-of-episode block
    model_evaluated,      \* local flag of the end-of-episode block
    caller,               \* call site evaluate_avg_time_step returns to: "case1", "case2" or None
    test_case,            \* loop variable of evaluate_avg_time_step
    time_step_list,       \* local list of evaluate_avg_time_step
    writes,               \* the file_handler.save calls of the current end-of-episode block, in order
    best_file,            \* time_step field of ./model_best.pth.tar as last written by this run, -1 if not written
    minibatch,            \* sampled transitions of the current training step (target computation)
    q_value_next,         \* variable_qnetwork.net(next_state) for each sampled transition
    target_q_value_next,  \* target_qnetwork.net(next_state) for each sampled transition
    y,                    \* regression targets of the current training step, in tenths
    frame,                \* a grayscale image at the resolution of frame_preprocess's output:
                          \* one gray value per pixel
    outs,                 \* the arrays returned by frame_preprocess for frame and then for its own result
    \* ---- history variables (not program state)
    stepped_after_terminal, \* the last frame_step call was made on an environment that had returned terminal and was not reinitialised
    target_object,        \* the object the name target_qnetwork is bound to, None before line 162
    synced_params,        \* variable_params as it was when line 162 or 257 was last executed, Unbound before
    current_state,        \* agent.current_state of the one agent object (variable_qnetwork, which is
                          \* also the agent evaluate_avg_time_step plays with): the environment its
                          \* stacked frames belong to, None before the first init_state
    first_state,          \* the current_state the first training step of the latest episode chose its
                          \* action from and stored as the state of its transition, None before
    since_sync,           \* training environment steps since the last copy into target_qnetwork
    last_gap,             \* value of since_sync when the latest re-synchronisation happened, 0 if none yet
    eval_calls,           \* calls of evaluate_avg_time_step in the current end-of-episode block
    best_before,          \* best_time_step when the current end-of-episode block started
    test_episodes,        \* for each test episode of the evaluation in progress: the number of
                          \* frame_step calls of its while loop that returned terminal = false
    block_fitness,        \* the value evaluate_avg_time_step returned in the current end-of-episode
                          \* block, Unbound while it did not return in this block
    eval_actions,         \* where the actions passed to frame_step by evaluate_avg_time_step in the
                          \* current end-of-episode block came from
    epsilons              \* epsilon in force during each episode started so far

vars == <<training_setting, model_file, pc, exit_code, error_log, checkpoint,
          best_time_step, variable_params, target_params, target_object, synced_params,
          memory, time_step, i,
          epsilon, episode, terminal, eval_terminal, avg_time_step,
          checkpoint_saved, model_evaluated, caller, test_case, time_step_list,
          writes, best_file, minibatch, q_value_next, target_q_value_next, y,
          stepped_after_terminal, since_sync, last_gap, eval_calls, best_before,
          eval_actions, test_episodes, block_fitness, epsilons, frame, outs,
          current_state, first_state>>

\* variables of the target computation, untouched by the run's control flow
target_vars == <<minibatch, q_value_next, target_q_value_next, y>>

\* variables of the frame preprocessing on its own
frame_vars == <<frame, outs>>

\* the agent's stacked-frame observation and its history
agent_state_vars == <<current_state, first_state>>


\* ------------------------------------------------------- external collaborators
\* FlappyBirdGameManager.frame_step: the (reward, terminal) part of its result.
\* The game pays 0.1 for a frame survived and -1 for the frame that ends it.
\* forced = TRUE makes the environment end the episode (the bound on episode length).
\* A step made after terminal without reinitialisation has the same open outcome.
\* A newly built game is not over after its first frame (FirstFrame, EvalEpisodeBegin).
frame_step(forced) ==
    { [reward |-> IF t THEN -10 ELSE 1, terminal |-> t] :
        t \in (IF forced THEN {TRUE} ELSE BOOLEAN) }

\* FlappyAgent.store_transition: the replay memory is a FIFO of capacity memory_size
store_transition(mem, tr, memory_size) ==
    IF Len(mem) >= memory_size THEN Append(Tail(mem), tr) ELSE Append(mem, tr)

\* the transition FlappyAgent.store_transition records for one environment step:
\* its reward and terminal fields (data[2], data[4]); the stacked frames and the
\* action take no part in any decision of the loop and are left out
Transition(res) == [reward |-> res.reward, terminal |-> res.terminal]

\* ReplayMemory.sample(k) raises unless the memory holds at least k transitions
CanSample(mem, k) == Len(mem) >= k

\* FlappyAgent.increase_time_step
increase_time_step(ts) == ts + 1

\* dict.get(key, default) on a loaded checkpoint
Get(d, key, default) == IF key \in DOMAIN d THEN d[key] ELSE default

\* a start-up that never takes the resume branch
ResumeIgnored(s) == FALSE

\* line 100
ResumeRequested(s) == s.resume

\* a loop that stops one episode early, as range(max_episode) would
LastEpisodeExclusive(s) == s.max_episode - 1

\* line 167: the last value of range(max_episode + 1)
LastEpisode(s) == s.max_episode

\* line 134: the environment dqn_training_process builds
TrainingEnv == "training environment"

\* line 349: the environment evaluate_avg_time_step builds
EvalEnv == "evaluation environment"

\* lines 140 and 353: the literal action [1, 0] with which an environment is stepped
\* to obtain the first frame of a game
OpeningAction == "[1, 0]"

\* the policy of the training loop (line 177)
ExplorationPolicy == "get_action_based_on_exploration"

\* a test episode that goes on counting where the agent's counter stands
CarriedCounter(ts) == ts

\* line 352: agent.time_step = 0 at the start of every test episode
TestEpisodeCounterStart(ts) == 0

\* line 357: the policy the agent is asked for an action in evaluate_avg_time_step
EvalPolicy == "get_optim_action"

\* --------------------------------------------------- pieces of the training loop
\* line 116: the fitness baseline taken from a loaded checkpoint
LoadedBestTimeStep(ck) == Get(ck, "time_step", 0)

\* a plain assignment target_qnetwork = variable_qnetwork: both names are bound to
\* one object, and an optimizer step on the one is seen through the other
SameObject == "variable_qnetwork"

\* lines 162 and 257: copy.deepcopy(variable_qnetwork) is a new object with a copy
\* of the parameters, which shares no storage with its argument
deepcopy == "copy"

\* line 256: the target network is refreshed when the agent's step counter is a multiple of the cadence
SyncDue(ts, s) == ts % s.update_target_qnetwork_freq = 0

\* The quotient a / b (a >= 0, b > 0) in fixed-point units, rounded to the nearest
\* unit: the float division of line 271 rounds to the nearest representable value
RoundDiv(a, b) == (2 * a + b) \div (2 * b)

\* lines 271-272
Delta(s) == RoundDiv(s.init_e - s.final_e, s.exploration)

\* lines 270-273: the per-episode decay of epsilon
DecayEpsilon(eps, s) == IF eps > s.final_e THEN eps - Delta(s) ELSE eps

\* a warm-up that takes one step less than configured
WarmupStepsShort(s) == s.observation - 1

\* a warm-up that takes one step more than configured
WarmupStepsLong(s) == s.observation + 1

\* line 151: the number of warm-up steps
WarmupSteps(s) == s.observation

\* line 286
TestGate(ep, s) == ep % s.test_model_freq = 0

\* an evaluation guard that ignores the flag
AlwaysEvaluate(evaluated) == TRUE

\* an evaluation guard that never lets the model be evaluated
SkipEvaluation(evaluated) == FALSE

\* lines 287 and 309: the model is evaluated unless it was already in this block
NeedsEvaluation(evaluated) == ~evaluated

\* line 308, first conjunct
SaveGate(ep, s) == ep % s.save_checkpoint_freq = 0

\* a save condition that does not look at checkpoint_saved
SaveDueIgnoringSaved(ep, saved, s) == SaveGate(ep, s)

\* line 308
SaveDue(ep, saved, s) == SaveGate(ep, s) /\ ~saved

\* a promotion test that also accepts a fitness equal to the best so far
PromoteOrEqual(avg, best) == avg >= best

\* a promotion test with the comparison turned around
PromoteIfLower(avg, best) == avg < best

\* line 290
Promote(avg, best) == avg > best

\* the record handed to file_handler.save (lines 292-298, 312-318); site names the call
\* (299: "best", 305: "best_root", 319: "regular"). state_dict, network_structure
\* and epsilon are not needed by any property and are left out of the history.
Record(site, ep, fitness) ==
    [name |-> IF site = "best_root" THEN "model_best.pth.tar" ELSE "checkpoint-episode",
     dir |-> IF site = "best_root" THEN "./" ELSE "run",
     site |-> site, episode |-> ep, time_step |-> fitness]

RECURSIVE SumSeq(_)
SumSeq(q) == IF q = <<>> THEN 0 ELSE Head(q) + SumSeq(Tail(q))

\* line 368, in units of 1/test_episode_num (sorting does not change the sum)
AvgTimeStep(list) == (SumSeq(list) * test_episode_num) \div Len(list)

\* ------------------------------------------ target computation (lines 205-236)
\* torch.max(q, dim=1) on one row of two Q-values: the maximum ...
MaxQ(q) == IF q[1] >= q[2] THEN q[1] ELSE q[2]

\* ... and its index (the first one on a tie)
MaxQIndex(q) == IF q[1] >= q[2] THEN 1 ELSE 2

\* a Double-DQN target that bootstraps from the target network's own maximum
DoubleTargetOwnMax(tr, q, tq, gamma) ==
    IF ~tr.terminal THEN tr.reward + gamma * MaxQ(tq) ELSE tr.reward

\* Target of a transition when 'Double DQN' is in advanced_method (lines 224-230):
\* the target network's value at the variable network's best action
DoubleTarget(tr, q, tq, gamma) ==
    IF ~tr.terminal THEN tr.reward + gamma * tq[MaxQIndex(q)] ELSE tr.reward

\* lines 232-236: otherwise; q is q_value_next, computed at line 205 by
\* variable_qnetwork.net, and the target network's output tq is not read
VanillaTarget(tr, q, tq, gamma) ==
    IF ~tr.terminal THEN tr.reward + gamma * MaxQ(q) ELSE tr.reward

\* lines 209-236: y for a minibatch; q and tq are the outputs of the variable and
\* of the target network for the next states of the minibatch
CalcY(batch, q, tq, s) ==
    [k \in 1..s.batch_size |->
        IF "Double DQN" \in s.advanced_method
        THEN DoubleTarget(batch[k], q[k], tq[k], s.gamma)
        ELSE VanillaTarget(batch[k], q[k], tq[k], s.gamma)]

\* ------------------------------------------- frame preprocessing (lines 45-64)
\* lines 62-63 on one pixel: a gray value of at most 1 becomes 0.0, any other 1.0
Threshold(v) == IF v <= 1 THEN 0 ELSE 1

\* lines 61-64 on an image that is already grayscale and at the target resolution
\* (the resize and the conversion of line 60 leave such an image as it is)
Binarize(img) == [k \in 1..Len(img) |-> Threshold(img[k])]

\* -------------------------------------------------------------------- Init
\* the part of the initial state that does not depend on the inputs
Idle ==
    /\ exit_code = Unbound
    /\ error_log = 0
    /\ checkpoint = NoCheckpoint
    /\ best_time_step = 0
    /\ variable_params = 0
    /\ target_params = Unbound
    /\ target_object = None
    /\ synced_params = Unbound
    /\ time_step = 0
    /\ i = 0
    /\ epsilon = Unbound
    /\ episode = -1
    /\ terminal = FALSE
    /\ eval_terminal = FALSE
    /\ avg_time_step = Unbound
    /\ checkpoint_saved = FALSE
    /\ model_evaluated = FALSE
    /\ caller = None
    /\ test_case = 0
    /\ time_step_list = <<>>
    /\ writes = <<>>
    /\ best_file = -1
    /\ y = <<>>
    /\ stepped_after_terminal = FALSE
    /\ since_sync = 0
    /\ last_gap = 0
    /\ eval_calls = 0
    /\ best_before = 0
    /\ eval_actions = {}
    /\ block_fitness = Unbound
    /\ test_episodes = <<>>
    /\ epsilons = <<>>
    /\ current_state = None
    /\ first_state = None

\* inputs: pairs <<training setting, file found at model_path>>
InitWith(inputs) ==
    /\ \E inp \in inputs : training_setting = inp[1] /\ model_file = inp[2]
    /\ pc = "start"
    /\ memory = <<>>
    /\ minibatch = <<>>
    /\ q_value_next = <<>>
    /\ target_q_value_next = <<>>
    /\ frame = <<>>
    /\ outs = <<>>
    /\ Idle

\* ------------------------------------------------------ start-up (lines 85-143)
eval_vars == <<eval_terminal, avg_time_step, checkpoint_saved, model_evaluated,
               caller, test_case, time_step_list, eval_calls, best_before, eval_actions,
               test_episodes, block_fitness>>
loop_vars == <<variable_params, target_params, target_object, synced_params, memory, time_step, i, epsilon, episode,
               terminal, since_sync, last_gap, epsilons,
               stepped_after_terminal>>

\* lines 100-106: resume without a model path
ResumeWithoutModelPath ==
    /\ pc = "start"
    /\ ResumeRequested(training_setting)
    /\ training_setting.model_path = None
    /\ error_log' = error_log + 1
    /\ exit_code' = 1
    /\ pc' = "exit"
    /\ UNCHANGED <<training_setting, model_file, checkpoint, best_time_step, writes, best_file>>
    /\ UNCHANGED <<loop_vars, eval_vars, target_vars>>
    /\ UNCHANGED frame_vars
    /\ UNCHANGED agent_state_vars

\* lines 110-115: file_handler.load raises
ResumeLoadFails ==
    /\ pc = "start"
    /\ ResumeRequested(training_setting)
    /\ training_setting.model_path # None
    /\ model_file = Unreadable
    /\ error_log' = error_log + 1
    /\ exit_code' = 1
    /\ pc' = "exit"
    /\ UNCHANGED <<training_setting, model_file, checkpoint, best_time_step, writes, best_file>>
    /\ UNCHANGED <<loop_vars, eval_vars, target_vars>>
    /\ UNCHANGED frame_vars
    /\ UNCHANGED agent_state_vars

\* lines 110-121: the checkpoint is loaded
ResumeLoad ==
    /\ pc = "start"
    /\ ResumeRequested(training_setting)
    /\ training_setting.model_path # None
    /\ model_file # Unreadable
    /\ checkpoint' = model_file
    /\ best_time_step' = LoadedBestTimeStep(model_file)
    /\ variable_params' = Get(model_file, "state_dict", 0)
    /\ pc' = "setup"
    /\ UNCHANGED <<training_setting, model_file, exit_code, error_log, writes, best_file>>
    /\ UNCHANGED <<target_params, target_object, synced_params, memory, time_step, i, epsilon, episode, terminal, since_sync, last_gap, epsilons, stepped_after_terminal>>
    /\ UNCHANGED <<eval_vars, target_vars>>
    /\ UNCHANGED frame_vars
    /\ UNCHANGED agent_state_vars

\* line 100, resume not requested
FreshStart ==
    /\ pc = "start"
    /\ ~ResumeRequested(training_setting)
    /\ pc' = "setup"
    /\ UNCHANGED <<training_setting, model_file, exit_code, error_log, checkpoint,
                   best_time_step, writes, best_file>>
    /\ UNCHANGED <<loop_vars, eval_vars, target_vars>>
    /\ UNCHANGED frame_vars
    /\ UNCHANGED agent_state_vars

\* lines 132-143: the environment is built and stepped once with [1, 0]; nothing is stored
FirstFrame ==
    /\ pc = "setup"
    /\ \E res \in frame_step(FALSE) :
          /\ ~res.terminal
          /\ terminal' = res.terminal
    /\ stepped_after_terminal' = FALSE
    /\ i' = 0
    /\ pc' = "warmup"
    /\ UNCHANGED <<training_setting, model_file, exit_code, error_log, checkpoint,
                   best_time_step, writes, best_file>>
    /\ UNCHANGED <<variable_params, target_params, target_object, synced_params, memory, time_step, epsilon, episode,
                   since_sync, last_gap, epsilons>>
    /\ UNCHANGED <<eval_vars, target_vars>>
    /\ UNCHANGED frame_vars
    /\ current_state' = TrainingEnv
    /\ UNCHANGED first_state

\* lines 151-155: one warm-up step under the fixed-probability policy
WarmupStep ==
    /\ pc = "warmup"
    /\ i < WarmupSteps(training_setting)
    /\ \E res \in frame_step(FALSE) :
          /\ terminal' = res.terminal
          /\ memory' = store_transition(memory, Transition(res),
                                        training_setting.memory_size)
    /\ stepped_after_terminal' = terminal
    /\ i' = i + 1
    /\ UNCHANGED <<training_setting, model_file, pc, exit_code, error_log, checkpoint,
                   best_time_step, writes, best_file>>
    /\ UNCHANGED <<variable_params, target_params, target_object, synced_params, time_step, epsilon, episode,
                   since_sync, last_gap, epsilons>>
    /\ UNCHANGED <<eval_vars, target_vars>>
    /\ UNCHANGED frame_vars
    /\ current_state' = TrainingEnv
    /\ UNCHANGED first_state

\* lines 162-164: the target network is created as a deep copy, epsilon starts at init_e
EnterTraining ==
    /\ pc = "warmup"
    /\ i >= WarmupSteps(training_setting)
    /\ target_params' = variable_params
    /\ target_object' = deepcopy
    /\ synced_params' = variable_params
    /\ since_sync' = 0
    /\ epsilon' = training_setting.init_e
    /\ pc' = "for"
    /\ UNCHANGED <<training_setting, model_file, exit_code, error_log, checkpoint,
                   best_time_step, writes, best_file>>
    /\ UNCHANGED <<variable_params, memory, time_step, i, episode, terminal,
                   last_gap, epsilons, stepped_after_terminal>>
    /\ UNCHANGED <<eval_vars, target_vars>>
    /\ UNCHANGED frame_vars
    /\ UNCHANGED agent_state_vars

\* ------------------------------------------------ training loop (lines 167-261)
config_vars == <<training_setting, model_file, exit_code, error_log, checkpoint>>

\* line 167: the for statement takes the next episode index; lines 168-169
EpisodeBegin ==
    /\ pc = "for"
    /\ episode + 1 <= LastEpisode(training_setting)
    /\ episode' = episode + 1
    /\ time_step' = 0
    /\ epsilons' = Append(epsilons, epsilon)
    /\ pc' = "step"
    /\ UNCHANGED <<config_vars, best_time_step, writes, best_file>>
    /\ UNCHANGED <<variable_params, target_params, target_object, synced_params, memory, i, epsilon, terminal, since_sync, last_gap, stepped_after_terminal>>
    /\ UNCHANGED <<eval_vars, target_vars>>
    /\ UNCHANGED frame_vars
    /\ UNCHANGED agent_state_vars

\* line 167: range(max_episode + 1) is exhausted, the function returns
TrainingDone ==
    /\ pc = "for"
    /\ episode + 1 > LastEpisode(training_setting)
    /\ pc' = "done"
    /\ UNCHANGED <<config_vars, best_time_step, writes, best_file>>
    /\ UNCHANGED <<loop_vars, eval_vars, target_vars>>
    /\ UNCHANGED frame_vars
    /\ UNCHANGED agent_state_vars

\* lines 173-261, one pass of the while loop: act, step the environment, store the
\* transition, count the step, sample a minibatch, make one optimizer step, refresh
\* the target network when due, and leave the loop on terminal
TrainStep ==
    /\ pc = "step"
    /\ \E res \in frame_step(time_step + 1 >= MaxSteps) :
          LET mem == store_transition(memory, Transition(res),
                                      training_setting.memory_size)
              ts  == increase_time_step(time_step)
          IN  /\ CanSample(mem, training_setting.batch_size)
              /\ memory' = mem
              /\ time_step' = ts
              /\ terminal' = res.terminal
                  /\ variable_params' = variable_params + 1
              /\ IF SyncDue(ts, training_setting)
                 THEN /\ target_params' = variable_params + 1
                      /\ target_object' = deepcopy
                      /\ synced_params' = variable_params + 1
                      /\ last_gap' = since_sync + 1
                      /\ since_sync' = 0
                 ELSE /\ since_sync' = since_sync + 1
                      /\ target_params' = IF target_object = "variable_qnetwork"
                                          THEN variable_params + 1
                                          ELSE target_params
                      /\ UNCHANGED <<target_object, synced_params, last_gap>>
              /\ pc' = IF res.terminal THEN "episode_end" ELSE "step"
    /\ stepped_after_terminal' = terminal
    /\ UNCHANGED <<config_vars, best_time_step, writes, best_file>>
    /\ UNCHANGED <<i, epsilon, episode, epsilons>>
    /\ UNCHANGED <<eval_vars, target_vars>>
    /\ UNCHANGED frame_vars
    /\ first_state' = (IF time_step = 0 THEN current_state ELSE first_state)
    /\ current_state' = TrainingEnv

\* lines 173-190 when memory.sample raises: the exception is not caught
TrainStepSampleFails ==
    /\ pc = "step"
    /\ \E res \in frame_step(time_step + 1 >= MaxSteps) :
          LET mem == store_transition(memory, Transition(res),
                                      training_setting.memory_size)
          IN  /\ ~CanSample(mem, training_setting.batch_size)
              /\ memory' = mem
              /\ time_step' = increase_time_step(time_step)
              /\ terminal' = res.terminal
        /\ stepped_after_terminal' = terminal
    /\ since_sync' = since_sync + 1
    /\ pc' = "raised"
    /\ UNCHANGED <<training_setting, model_file, exit_code, error_log, checkpoint,
                   best_time_step, writes, best_file>>
    /\ UNCHANGED <<variable_params, target_params, target_object, synced_params, i, epsilon, episode, last_gap, epsilons>>
    /\ UNCHANGED <<eval_vars, target_vars>>
    /\ UNCHANGED frame_vars
    /\ first_state' = (IF time_step = 0 THEN current_state ELSE first_state)
    /\ current_state' = TrainingEnv

\* --------------------------------------------- end of an episode (lines 265-327)
\* lines 265-283: epsilon decays, the two flags are cleared
EpisodeEnd ==
    /\ pc = "episode_end"
    /\ epsilon' = DecayEpsilon(epsilon, training_setting)
    /\ checkpoint_saved' = FALSE
    /\ model_evaluated' = FALSE
    /\ eval_calls' = 0
    /\ best_before' = best_time_step
    /\ eval_actions' = {}
    /\ block_fitness' = Unbound
    /\ writes' = <<>>
    /\ pc' = "case1"
    /\ UNCHANGED <<config_vars, best_time_step, best_file>>
    /\ UNCHANGED <<variable_params, target_params, target_object, synced_params, memory, time_step, i, episode,
                   terminal, since_sync, last_gap, epsilons,
                   stepped_after_terminal>>
    /\ UNCHANGED <<eval_terminal, avg_time_step, caller, test_case, time_step_list,
                   test_episodes>>
    /\ UNCHANGED target_vars
    /\ UNCHANGED frame_vars
    /\ UNCHANGED agent_state_vars

\* lines 286-288: the test gate; evaluate_avg_time_step is entered (lines 346-350:
\* an empty list and a newly built environment)
Case1Gate ==
    /\ pc = "case1"
    /\ IF TestGate(episode, training_setting) /\ NeedsEvaluation(model_evaluated)
       THEN /\ caller' = "case1"
            /\ eval_calls' = eval_calls + 1
            /\ time_step_list' = <<>>
            /\ test_episodes' = <<>>
            /\ test_case' = 0
            /\ eval_terminal' = FALSE
            /\ pc' = "eval_for"
       ELSE /\ pc' = IF TestGate(episode, training_setting) THEN "case1_decide" ELSE "case2"
            /\ UNCHANGED <<caller, eval_calls, time_step_list, test_case, eval_terminal,
                           test_episodes>>
    /\ UNCHANGED <<config_vars, best_time_step, writes, best_file>>
    /\ UNCHANGED <<loop_vars, target_vars>>
    /\ UNCHANGED <<avg_time_step, checkpoint_saved, model_evaluated, best_before,
                   eval_actions, block_fitness>>
    /\ UNCHANGED frame_vars
    /\ UNCHANGED agent_state_vars

\* lines 351-355: a test episode starts: the counter is cleared and the evaluation
\* environment is stepped once with [1, 0], its result not being looked at
EvalEpisodeBegin ==
    /\ pc = "eval_for"
    /\ test_case < test_episode_num
    /\ time_step' = TestEpisodeCounterStart(time_step)
    /\ \E res \in frame_step(FALSE) :
          /\ test_case = 0 => ~res.terminal
          /\ eval_terminal' = res.terminal
          /\ test_episodes' = Append(test_episodes, 0)
    /\ stepped_after_terminal' = eval_terminal
    /\ eval_actions' = eval_actions \cup {OpeningAction}
    /\ pc' = "eval_step"
    /\ UNCHANGED <<config_vars, best_time_step, writes, best_file>>
    /\ UNCHANGED <<variable_params, target_params, target_object, synced_params, memory, i, epsilon, episode,
                   terminal, since_sync, last_gap, epsilons>>
    /\ UNCHANGED <<avg_time_step, checkpoint_saved, model_evaluated, caller, test_case,
                   time_step_list, eval_calls, best_before, block_fitness>>
    /\ UNCHANGED target_vars
    /\ UNCHANGED frame_vars
    /\ current_state' = EvalEnv
    /\ UNCHANGED first_state

\* lines 357-365, one pass of the while loop of a test episode
EvalStep ==
    /\ pc = "eval_step"
    /\ \E res \in frame_step(time_step >= MaxEvalSteps) :
          /\ eval_terminal' = res.terminal
          /\ IF res.terminal
             THEN /\ time_step_list' = Append(time_step_list, time_step)
                  /\ test_case' = test_case + 1
                  /\ pc' = "eval_for"
                  /\ UNCHANGED <<time_step, test_episodes, current_state>>
             ELSE /\ time_step' = increase_time_step(time_step)
                  /\ current_state' = EvalEnv
                  /\ test_episodes' =
                        [test_episodes EXCEPT ![Len(test_episodes)] = @ + 1]
                  /\ UNCHANGED <<time_step_list, test_case, pc>>
    /\ stepped_after_terminal' = eval_terminal
    /\ eval_actions' = eval_actions \cup {EvalPolicy}
    /\ UNCHANGED <<config_vars, best_time_step, writes, best_file>>
    /\ UNCHANGED <<variable_params, target_params, target_object, synced_params, memory, i, epsilon, episode,
                   terminal, since_sync, last_gap, epsilons>>
    /\ UNCHANGED <<avg_time_step, checkpoint_saved, model_evaluated, caller,
                   eval_calls, best_before, block_fitness>>
    /\ UNCHANGED target_vars
    /\ UNCHANGED frame_vars
    /\ UNCHANGED first_state

\* lines 366-374 and the assignment at the call site (288-289 or 310-311); the
\* locals of evaluate_avg_time_step and the environment it built go out of scope
EvalReturn ==
    /\ pc = "eval_for"
    /\ test_case >= test_episode_num
    /\ avg_time_step' = AvgTimeStep(time_step_list)
    /\ block_fitness' = AvgTimeStep(time_step_list)
    /\ model_evaluated' = TRUE
    /\ pc' = IF caller = "case1" THEN "case1_decide" ELSE "case2_save"
    /\ caller' = None
    /\ time_step_list' = <<>>
    /\ test_episodes' = <<>>
    /\ test_case' = 0
    /\ eval_terminal' = FALSE
    /\ UNCHANGED <<config_vars, best_time_step, writes, best_file>>
    /\ UNCHANGED <<loop_vars, target_vars>>
    /\ UNCHANGED <<checkpoint_saved, eval_calls, best_before, eval_actions>>
    /\ UNCHANGED frame_vars
    /\ UNCHANGED agent_state_vars

\* lines 290-305: promotion to "best"
Case1Decide ==
    /\ pc = "case1_decide"
    /\ IF Promote(avg_time_step, best_time_step)
       THEN /\ best_time_step' = avg_time_step
            /\ writes' = writes \o <<Record("best", episode, avg_time_step),
                                     Record("best_root", episode, avg_time_step)>>
            /\ best_file' = avg_time_step
            /\ checkpoint_saved' = TRUE
       ELSE UNCHANGED <<best_time_step, writes, best_file, checkpoint_saved>>
    /\ pc' = "case2"
    /\ UNCHANGED config_vars
    /\ UNCHANGED <<loop_vars, target_vars>>
    /\ UNCHANGED <<eval_terminal, avg_time_step, model_evaluated, caller, test_case,
                   time_step_list, eval_calls, best_before, eval_actions,
                   test_episodes, block_fitness>>
    /\ UNCHANGED frame_vars
    /\ UNCHANGED agent_state_vars

\* lines 308-311 and 325-327: the save gate
Case2Gate ==
    /\ pc = "case2"
    /\ IF SaveDue(episode, checkpoint_saved, training_setting)
       THEN IF NeedsEvaluation(model_evaluated)
            THEN /\ caller' = "case2"
                 /\ eval_calls' = eval_calls + 1
                 /\ time_step_list' = <<>>
                 /\ test_episodes' = <<>>
                 /\ test_case' = 0
                 /\ eval_terminal' = FALSE
                 /\ pc' = "eval_for"
            ELSE /\ pc' = "case2_save"
                 /\ UNCHANGED <<caller, eval_calls, time_step_list, test_case,
                                eval_terminal, test_episodes>>
       ELSE /\ pc' = "for"
            /\ UNCHANGED <<caller, eval_calls, time_step_list, test_case, eval_terminal,
                           test_episodes>>
    /\ UNCHANGED <<config_vars, best_time_step, writes, best_file>>
    /\ UNCHANGED <<loop_vars, target_vars>>
    /\ UNCHANGED <<avg_time_step, checkpoint_saved, model_evaluated, best_before,
                   eval_actions, block_fitness>>
    /\ UNCHANGED frame_vars
    /\ UNCHANGED agent_state_vars

\* lines 312-323: the regular checkpoint
Case2Save ==
    /\ pc = "case2_save"
    /\ writes' = Append(writes, Record("regular", episode, avg_time_step))
    /\ checkpoint_saved' = TRUE
    /\ pc' = "for"
    /\ UNCHANGED <<config_vars, best_time_step, best_file>>
    /\ UNCHANGED <<loop_vars, target_vars>>
    /\ UNCHANGED <<eval_terminal, avg_time_step, model_evaluated, caller, test_case,
                   time_step_list, eval_calls, best_before, eval_actions,
                   test_episodes, block_fitness>>
    /\ UNCHANGED frame_vars
    /\ UNCHANGED agent_state_vars

Next ==
    \/ ResumeWithoutModelPath
    \/ ResumeLoadFails
    \/ ResumeLoad
    \/ FreshStart
    \/ FirstFrame
    \/ WarmupStep
    \/ EnterTraining
    \/ EpisodeBegin
    \/ TrainingDone
    \/ TrainStep
    \/ TrainStepSampleFails
    \/ EpisodeEnd
    \/ Case1Gate
    \/ EvalEpisodeBegin
    \/ EvalStep
    \/ EvalReturn
    \/ Case1Decide
    \/ Case2Gate
    \/ Case2Save

\* ------------------------------------------------------------ configurations
\* The training settings come from the command line; each specification below
\* varies the settings its properties depend on and holds the others at the
\* values of DefaultSetting.
DefaultSetting ==
    [resume |-> FALSE, model_path |-> None, advanced_method |-> {},
     observation |-> 1, batch_size |-> 1, memory_size |-> 1,
     max_episode |-> MaxEpisode,
     test_model_freq |-> MaxEpisode + 1, save_checkpoint_freq |-> MaxEpisode + 1,
     update_target_qnetwork_freq |-> 1,
     init_e |-> 2, final_e |-> 2, exploration |-> 1, gamma |-> 9]

\* checkpoint files a run may be resumed from: with and without the fitness fields
CheckpointFiles ==
    { [state_dict |-> 0],
      [state_dict |-> 0, time_step |-> 2],
      [state_dict |-> 0, best_time_step |-> 3],
      [state_dict |-> 0, time_step |-> 2, best_time_step |-> 3] }

\* runs that end early: resume without a path, an unreadable file, and a resumed
\* run whose first minibatch cannot be drawn
EdgeInputs ==
    { <<[DefaultSetting EXCEPT !.resume = TRUE], Unreadable>>,
      <<[DefaultSetting EXCEPT !.resume = TRUE, !.model_path = "model.pth.tar"],
        Unreadable>>,
      <<[DefaultSetting EXCEPT !.resume = TRUE, !.model_path = "model.pth.tar",
                               !.observation = 0, !.batch_size = 2],
        [state_dict |-> 0, time_step |-> 2]>> }

\* the checkpoint policy: both gates over all frequencies, fresh and resumed
GateInputs ==
    { <<[DefaultSetting EXCEPT !.test_model_freq = t, !.save_checkpoint_freq = c], Unreadable>> :
        t \in 1..MaxGate, c \in 1..MaxGate }
    \cup
    { <<[DefaultSetting EXCEPT !.resume = TRUE, !.model_path = "model.pth.tar",
                               !.test_model_freq = 1, !.save_checkpoint_freq = 2], f>> :
        f \in CheckpointFiles }

Init == InitWith(EdgeInputs \cup GateInputs)

Spec == Init /\ [][Next]_vars

\* the synchronisation cadence of the target network
SyncInputs ==
    { <<[DefaultSetting EXCEPT !.update_target_qnetwork_freq = f], Unreadable>> : f \in 1..MaxFreq }

InitSync == InitWith(EdgeInputs \cup SyncInputs)

SpecSync == InitSync /\ [][Next]_vars

\* the epsilon schedule
EpsInputs ==
    { <<[DefaultSetting EXCEPT !.init_e = a, !.final_e = b, !.exploration = n], Unreadable>> :
        a \in 0..MaxEps, b \in 0..MaxEps, n \in 1..MaxExploration } \
    { inp \in { <<[DefaultSetting EXCEPT !.init_e = a, !.final_e = b, !.exploration = n], Unreadable>> :
        a \in 0..MaxEps, b \in 0..MaxEps, n \in 1..MaxExploration } :
        inp[1].init_e < inp[1].final_e }

InitEps == InitWith(EdgeInputs \cup EpsInputs)

SpecEps == InitEps /\ [][Next]_vars

\* warm-up length, minibatch size and replay capacity
MemInputs ==
    { <<[DefaultSetting EXCEPT !.observation = o, !.batch_size = b, !.memory_size = m], Unreadable>> :
        o \in 0..MaxObservation, b \in 1..MaxBatch, m \in 1..MaxMemory }

InitMem == InitWith(EdgeInputs \cup MemInputs)

SpecMem == InitMem /\ [][Next]_vars

\* the number of episodes of a run
EpisodeInputs ==
    { <<[DefaultSetting EXCEPT !.max_episode = n, !.test_model_freq = t,
                               !.save_checkpoint_freq = MaxEpisode], Unreadable>> :
        n \in 0..MaxEpisode, t \in {1, MaxEpisode + 1} }

InitEpisodes == InitWith(EdgeInputs \cup EpisodeInputs)

\* The process is sequential and keeps executing: a step that can be taken is
\* taken. Both environments return terminal within MaxSteps / MaxEvalSteps steps
\* of an episode.
SpecEpisodes == InitEpisodes /\ [][Next]_vars /\ WF_vars(Next)

\* --------------------------------------------- the target computation on its own
\* The regression targets are a function of the sampled minibatch and of the two
\* networks' outputs for its next states; SpecY draws all of them and applies CalcY.
Transitions == { Transition(res) : res \in frame_step(FALSE) }
                  \cup { [reward |-> 10, terminal |-> FALSE] }

QValues == {2, 5}

QRows == { <<a, b>> : a \in QValues, b \in QValues }

YSettings ==
    { [DefaultSetting EXCEPT !.advanced_method = m, !.batch_size = b, !.memory_size = b] :
        m \in SUBSET {"Double DQN"}, b \in 1..MaxBatch }

InitY ==
    /\ training_setting \in YSettings
    /\ model_file = Unreadable
    /\ pc = "sampled"
    /\ minibatch \in [1..training_setting.batch_size -> Transitions]
    /\ memory = minibatch
    /\ q_value_next \in [1..training_setting.batch_size -> QRows]
    /\ target_q_value_next \in [1..training_setting.batch_size -> QRows]
    /\ frame = <<>>
    /\ outs = <<>>
    /\ Idle

\* lines 205-236 applied to the drawn minibatch
ComputeTargets ==
    /\ pc = "sampled"
    /\ y' = CalcY(minibatch, q_value_next, target_q_value_next, training_setting)
    /\ pc' = "targets"
    /\ UNCHANGED <<config_vars, best_time_step, writes, best_file>>
    /\ UNCHANGED <<loop_vars, eval_vars>>
    /\ UNCHANGED <<minibatch, q_value_next, target_q_value_next>>
    /\ UNCHANGED frame_vars
    /\ UNCHANGED agent_state_vars

NextY == ComputeTargets

SpecY == InitY /\ [][NextY]_vars

\* --------------------------------------------- the frame preprocessing on its own
\* SpecPre draws a grayscale image, applies the binarization to it and then to
\* the result.
GrayValues == 0..MaxGray

Images == [1..ImagePixels -> GrayValues]

InitPre ==
    /\ training_setting = DefaultSetting
    /\ model_file = Unreadable
    /\ pc = "frame"
    /\ memory = <<>>
    /\ minibatch = <<>>
    /\ q_value_next = <<>>
    /\ target_q_value_next = <<>>
    /\ frame \in Images
    /\ outs = <<>>
    /\ Idle

\* lines 61-64 applied to the image, or to the result of the previous application
FramePreprocess ==
    /\ pc = "frame"
    /\ Len(outs) < 2
    /\ outs' = Append(outs, Binarize(IF outs = <<>> THEN frame ELSE outs[Len(outs)]))
    /\ UNCHANGED <<config_vars, best_time_step, writes, best_file, pc, frame>>
    /\ UNCHANGED <<loop_vars, eval_vars, target_vars>>
    /\ UNCHANGED agent_state_vars

NextPre == FramePreprocess

SpecPre == InitPre /\ [][NextPre]_vars

\* ================================================================ properties
\* the training loop has been entered and no exception ended the run
InTrainingLoop == pc \in {"for", "step", "episode_end", "case1", "eval_for", "eval_step",
                          "case1_decide", "case2", "case2_save", "done"}

\* C1: the target network is re-synchronised after exactly
\* update_target_qnetwork_freq training environment steps since the previous
\* synchronisation (or the initial copy), whatever the episode lengths, and right
\* after a synchronisation the target parameters equal the variable parameters.
C1_SyncEveryFreqSteps ==
    InTrainingLoop =>
        /\ since_sync < training_setting.update_target_qnetwork_freq
        /\ last_gap \in {0, training_setting.update_target_qnetwork_freq}
        /\ (since_sync = 0 => target_params = variable_params)

\* C2: without 'Double DQN' the target of a sampled transition is its reward when
\* it is terminal, and otherwise reward + gamma * the maximum of the TARGET
\* network's Q-values for its next state.
C2_VanillaBootstrapsFromTarget ==
    (pc = "targets" /\ "Double DQN" \notin training_setting.advanced_method) =>
        \A k \in 1..training_setting.batch_size :
            y[k] = IF minibatch[k].terminal
                   THEN minibatch[k].reward
                   ELSE minibatch[k].reward
                        + training_setting.gamma * MaxQ(target_q_value_next[k])

\* C3: with 'Double DQN' the target of a sampled transition is its reward when it
\* is terminal, and otherwise reward + gamma * the target network's Q-value at an
\* action that maximises the variable network's Q-values for the next state.
C3_DoubleDQNTarget ==
    (pc = "targets" /\ "Double DQN" \in training_setting.advanced_method) =>
        \A k \in 1..training_setting.batch_size :
            IF minibatch[k].terminal
            THEN y[k] = minibatch[k].reward
            ELSE \E a \in 1..2 :
                    /\ \A b \in 1..2 : q_value_next[k][a] >= q_value_next[k][b]
                    /\ y[k] = minibatch[k].reward
                              + training_setting.gamma * target_q_value_next[k][a]

\* C3, the scenario of the specification: the variable network ranks action 0
\* highest, the target network gives [2.0, 5.0], reward 1.0, gamma 0.9, not
\* terminal: the target is 2.8
C3_Witness ==
    /\ pc = "targets"
    /\ "Double DQN" \in training_setting.advanced_method
    /\ training_setting.gamma = 9
    /\ minibatch[1] = [reward |-> 10, terminal |-> FALSE]
    /\ q_value_next[1] = <<5, 2>>
    /\ target_q_value_next[1] = <<2, 5>>
    /\ y[1] = 28

\* C4: epsilon changes only at the end of an episode, the per-episode epsilon
\* values are non-increasing, and none of them (nor the value left after the last
\* decay) is below final_e.
C4_EpsilonSchedule ==
    InTrainingLoop =>
        /\ \A k \in 1..Len(epsilons) : epsilons[k] >= training_setting.final_e
        /\ \A k \in 1..Len(epsilons) : \A j \in k..Len(epsilons) : epsilons[k] >= epsilons[j]
        /\ epsilon >= training_setting.final_e
        /\ (pc = "step" => epsilon = epsilons[Len(epsilons)])

\* the end-of-episode block of episode `episode` has run to its end
BlockDone == pc \in {"for", "done"} /\ episode >= 0

\* the sites of the file_handler.save calls of the current block
Sites == { writes[k].site : k \in 1..Len(writes) }

\* the model was promoted in the current block: best_time_step was raised to the
\* evaluated fitness and the best record was written to both places
Promoted ==
    /\ {"best", "best_root"} \subseteq Sites
    /\ best_time_step = avg_time_step
    /\ best_time_step # best_before

\* nothing of a promotion happened in the current block
NotPromoted ==
    /\ Sites \cap {"best", "best_root"} = {}
    /\ best_time_step = best_before

\* C5 as stated: in every episode in which an evaluation ran, whichever gate
\* triggered it, the model is promoted iff the evaluated fitness strictly exceeds
\* the best so far.
C5_PromotedIffBetter ==
    (BlockDone /\ eval_calls > 0) =>
        IF avg_time_step > best_before THEN Promoted ELSE NotPromoted

\* C5 as amended: in every episode the model is promoted iff the test_model_freq
\* gate fired and the evaluated fitness strictly exceeds the best so far; an
\* evaluation triggered by the save_checkpoint_freq gate alone never promotes.
C5_PromotedIffTestGateAndBetter ==
    BlockDone =>
        IF TestGate(episode, training_setting) /\ avg_time_step > best_before
        THEN Promoted
        ELSE NotPromoted

\* C5: a promotion over a positive best so far
C5_Witness ==
    /\ BlockDone
    /\ TestGate(episode, training_setting)
    /\ eval_calls = 1
    /\ best_before > 0
    /\ avg_time_step > best_before
    /\ Promoted

\* a record is written to ./model_best.pth.tar in this step
BestRootWritten ==
    /\ Len(writes') > Len(writes)
    /\ writes'[Len(writes')].site = "best_root"

\* C6: after start-up best_time_step never decreases, it changes only in a step
\* that persists a best checkpoint, and each fitness written to
\* ./model_best.pth.tar exceeds the one written before it.
C6_BestMonotone ==
    [][ pc # "start" =>
          /\ best_time_step' >= best_time_step
          /\ (best_time_step' # best_time_step => BestRootWritten)
          /\ (BestRootWritten =>
                /\ writes'[Len(writes')].time_step = best_time_step'
                /\ writes'[Len(writes')].time_step > best_file
                /\ best_file' = writes'[Len(writes')].time_step) ]_vars

\* C6: a second, larger fitness has been written to ./model_best.pth.tar
C6_Witness ==
    /\ BlockDone
    /\ ~training_setting.resume
    /\ best_before > 0
    /\ "best_root" \in Sites
    /\ best_file > best_before

\* C7 as stated: memory.sample never fails in a training run.
C7_SampleNeverFails == pc # "raised"

Min(a, b) == IF a <= b THEN a ELSE b

\* C7 as amended: provided batch_size <= min(memory_size, observation + 1), the
\* replay memory holds at least batch_size transitions at every memory.sample call
\* of the training loop (the observation warm-up transitions and the one stored by
\* the step itself, capped by the capacity), so the call never fails; with any
\* other setting the first training step fails at memory.sample.
C7_SampleSucceedsWhenConfigured ==
    IF training_setting.batch_size
          <= Min(training_setting.memory_size, training_setting.observation + 1)
    THEN /\ pc # "raised"
         /\ (pc \in {"step", "episode_end"} /\ time_step > 0
               => Len(memory) >= training_setting.batch_size)
    ELSE /\ pc \in {"start", "exit", "setup", "warmup", "for", "step", "raised"}
         /\ (pc = "step" => time_step = 0 /\ episode = 0)
         /\ (pc = "for" => episode = -1)

\* C7: a training step has sampled from a memory that holds exactly batch_size
\* transitions, one more than the warm-up stored
C7_Witness ==
    /\ pc = "step"
    /\ time_step = 1
    /\ episode = 0
    /\ training_setting.batch_size = training_setting.observation + 1
    /\ training_setting.batch_size > 1
    /\ Len(memory) = training_setting.batch_size

\* C8: evaluate_avg_time_step is called at most once per episode; when both gates
\* fire it runs exactly once and every record saved in the episode carries its
\* result; when neither gate fires it does not run.
C8_EvaluateAtMostOnce ==
    InTrainingLoop =>
        /\ eval_calls <= 1
        /\ (BlockDone /\ TestGate(episode, training_setting)
                      /\ SaveGate(episode, training_setting)
              => /\ eval_calls = 1
                 /\ writes # <<>>
                 /\ \A k \in 1..Len(writes) : writes[k].time_step = avg_time_step)
        /\ (BlockDone /\ ~TestGate(episode, training_setting)
                      /\ ~SaveGate(episode, training_setting)
              => eval_calls = 0)

\* C8: both gates fired, there was no promotion, and the regular checkpoint
\* carries the result of the one evaluation
C8_Witness ==
    /\ BlockDone
    /\ episode > 0
    /\ TestGate(episode, training_setting)
    /\ SaveGate(episode, training_setting)
    /\ eval_calls = 1
    /\ Sites = {"regular"}
    /\ writes[1].time_step = avg_time_step

\* the number of checkpoint-episode-N files written to the run's folder in the current block
RunFolderWrites == Cardinality({ k \in 1..Len(writes) : writes[k].dir = "run" })

\* C9: a regular checkpoint is persisted iff the save gate fired and no best
\* checkpoint was saved in the episode; the run's folder gets at most one
\* checkpoint-episode-N per episode, and none when there was neither a promotion
\* nor a save gate.
C9_RegularCheckpoint ==
    BlockDone =>
        /\ ("regular" \in Sites)
              <=> (SaveGate(episode, training_setting) /\ "best" \notin Sites)
        /\ RunFolderWrites <= 1
        /\ \A k \in 1..Len(writes) : writes[k].episode = episode
        /\ ("best" \notin Sites /\ ~SaveGate(episode, training_setting)
              => RunFolderWrites = 0)

\* C9: the save gate fired in an episode that saved a best checkpoint: no regular one
C9_Witness ==
    /\ BlockDone
    /\ episode > 0
    /\ SaveGate(episode, training_setting)
    /\ "best" \in Sites
    /\ "regular" \notin Sites
    /\ RunFolderWrites = 1

\* C10: no frame_step call is made on an environment that returned terminal and
\* was not reinitialised since.
C10_NoStepAfterTerminal == ~stepped_after_terminal

\* a checkpoint was found at model_path and loaded by a resumed run
LoadableCheckpoint ==
    /\ training_setting.resume
    /\ training_setting.model_path # None
    /\ model_file # Unreadable

\* C11: on resume, a loaded checkpoint that has neither time_step nor
\* best_time_step is fatal: an error is logged and the process exits before
\* warm-up or any training step.
C11_MissingFitnessIsFatal ==
    (/\ LoadableCheckpoint
     /\ "time_step" \notin DOMAIN model_file
     /\ "best_time_step" \notin DOMAIN model_file)
    => /\ pc \in {"start", "exit"}
       /\ (pc = "exit" => error_log > 0)

\* C12: on resume the fitness baseline is the checkpoint's time_step when that
\* field is present, and otherwise the checkpoint's best_time_step when that one
\* is present.
C12_BaselineTwoKeyFallback ==
    (pc = "setup" /\ checkpoint # NoCheckpoint) =>
        best_time_step =
            IF "time_step" \in DOMAIN checkpoint THEN checkpoint.time_step
            ELSE IF "best_time_step" \in DOMAIN checkpoint THEN checkpoint.best_time_step
            ELSE best_time_step

\* nothing was done to the environment, the replay memory, the networks or the disk
NothingDone ==
    /\ memory = <<>>
    /\ variable_params = 0
    /\ target_params = Unbound
    /\ writes = <<>>
    /\ best_file = -1
    /\ i = 0
    /\ time_step = 0
    /\ episode = -1
    /\ since_sync = 0
    /\ ~terminal
    /\ ~stepped_after_terminal

\* C13: when resume is requested and model_path is None, or when loading the
\* checkpoint raises, the first thing the process does is to emit one error-level
\* message and exit with status 1; nothing was done before (no environment step,
\* stored transition, gradient step or checkpoint write), and nothing is done
\* after the exit.
C13_FatalStartupErrors ==
    /\ [](pc \in {"start", "exit"} => NothingDone)
    /\ [](pc = "exit" => exit_code = 1 /\ error_log = 1)
    /\ [][ /\ pc # "exit"
           /\ (/\ pc = "start"
               /\ training_setting.resume
               /\ (training_setting.model_path = None \/ model_file = Unreadable))
              => (pc' = "exit" /\ exit_code' = 1 /\ error_log' = error_log + 1) ]_vars

\* C13: the process exited because loading the checkpoint raised
C13_Witness ==
    /\ pc = "exit"
    /\ training_setting.resume
    /\ training_setting.model_path # None
    /\ model_file = Unreadable
    /\ exit_code = 1
    /\ error_log = 1
    /\ NothingDone

\* memory.sample can be served at every training step (C7)
SampleConfigured ==
    training_setting.batch_size
        <= Min(training_setting.memory_size, training_setting.observation + 1)

LoopEntry == pc = "for" /\ episode = -1

\* C15: warm-up takes exactly `observation` environment steps and stores one
\* transition per step, with no gradient step, no target copy and no episode
\* counting; the frame_step issued before warm-up stores nothing. So when the
\* training loop is entered the replay memory holds `observation` transitions,
\* provided its capacity is at least that.
C15_WarmupPopulatesMemory ==
    /\ [](pc \in {"setup", "warmup"} =>
            /\ i <= training_setting.observation
            /\ Len(memory) = Min(i, training_setting.memory_size)
            /\ target_params = Unbound
            /\ episode = -1
            /\ time_step = 0
            /\ epsilons = <<>>)
    /\ [](LoopEntry =>
            /\ i = training_setting.observation
            /\ (training_setting.memory_size >= training_setting.observation
                  => Len(memory) = training_setting.observation))
    /\ [][ /\ (pc = "setup" => memory' = memory /\ i' = 0)
           /\ (pc \in {"setup", "warmup"} =>
                 UNCHANGED <<variable_params, time_step, episode, since_sync, last_gap>>)
           /\ (pc = "warmup" /\ pc' = "warmup" =>
                 /\ i' = i + 1
                 /\ Len(memory') = Min(Len(memory) + 1, training_setting.memory_size)
                 /\ memory'[Len(memory')].terminal = terminal')
         ]_vars

\* C15: observation = 2, a capacity of 2 and an environment that did not return
\* terminal: two transitions are in the memory at loop entry
C15_Witness ==
    /\ LoopEntry
    /\ training_setting.observation = 2
    /\ training_setting.memory_size = 2
    /\ i = 2
    /\ Len(memory) = 2
    /\ \A k \in 1..2 : ~memory[k].terminal

\* evaluate_avg_time_step is executing (or returning to its call site)
InEvaluation == pc \in {"eval_for", "eval_step"}

\* the replay memory, both networks, epsilon and best_time_step
learning_state == <<memory, variable_params, target_params, epsilon, best_time_step>>

EvalReturning == pc = "eval_for" /\ test_case >= test_episode_num

\* avg is the arithmetic mean of the numbers in counts (avg in units of 1/test_episode_num)
IsMeanOf(avg, counts) ==
    /\ counts # <<>>
    /\ avg * Len(counts) = SumSeq(counts) * test_episode_num

IsBinary(img) == \A k \in 1..Len(img) : img[k] \in {0, 1}

\* C18: on an image at the target resolution whose pixels are all 0 or 1, the
\* binarization returns the image unchanged, pixel for pixel; hence applying the
\* binarization twice gives the same as applying it once.
C18_BinarizeIdentityOnBinary ==
    /\ (Len(outs) >= 1 /\ IsBinary(frame) => outs[1] = frame)
    /\ (Len(outs) = 2 => outs[2] = outs[1])

\* C19: at training-loop entry the target network equals the variable network,
\* and in every later state its parameters are the variable network's parameters
\* as they were at the most recent synchronisation (or the initial copy), however
\* many optimizer steps the variable network has taken since; the target changes
\* in a synchronising step only.
C19_TargetFrozenBetweenSyncs ==
    /\ [](LoopEntry => target_params = variable_params)
    /\ [](InTrainingLoop \/ pc = "raised" => target_params = synced_params)
    /\ [][ (InTrainingLoop /\ target_params' # target_params)
             => /\ pc = "step"
                /\ SyncDue(time_step', training_setting)
                /\ target_params' = variable_params' ]_vars

\* C19: two optimizer steps were applied since the last synchronisation and the
\* target still has the parameters of that synchronisation
C19_Witness ==
    /\ pc = "step"
    /\ since_sync = 2
    /\ last_gap > 0
    /\ variable_params = synced_params + 2
    /\ target_params = synced_params

\* the end-of-episode block of episode `episode` is running or has just ended
InBlock ==
    \/ pc \in {"case1", "eval_for", "eval_step", "case1_decide", "case2", "case2_save"}
    \/ BlockDone

\* C20: every record persisted (best or regular) carries in its time_step field
\* the fitness returned by an evaluation that ran in the same end-of-episode
\* block: nothing is written in an episode without an evaluation, no fitness of an
\* earlier episode is written, and a best record carries the updated
\* best_time_step.
C20_RecordsCarryFreshFitness ==
    /\ [](InBlock /\ writes # <<>> =>
            /\ eval_calls = 1
            /\ block_fitness # Unbound
            /\ \A k \in 1..Len(writes) :
                  /\ writes[k].episode = episode
                  /\ writes[k].time_step = block_fitness)
    /\ [][Len(writes') > Len(writes) =>
            /\ model_evaluated
            /\ block_fitness # Unbound
            /\ \A k \in (Len(writes) + 1)..Len(writes') :
                  /\ writes'[k].time_step = block_fitness
                  /\ (writes'[k].site \in {"best", "best_root"}
                        => writes'[k].time_step = best_time_step')]_vars

\* C20: in a later episode the save gate alone fired; the regular record carries
\* the fitness of this episode's evaluation, which differs from the one evaluated
\* before
C20_Witness ==
    /\ BlockDone
    /\ episode > 0
    /\ ~TestGate(episode, training_setting)
    /\ Sites = {"regular"}
    /\ writes[1].time_step = block_fitness
    /\ best_file >= 0
    /\ block_fitness # best_file

\* C21: an end-of-episode evaluation does not disturb the training agent's
\* interaction state: the current_state from which the first action of a training
\* episode is chosen, and which is stored as the state of the episode's first
\* transition, is the one the training environment's own last step produced, not
\* one left behind by evaluate_avg_time_step; and the time_step counter starts
\* from 0 in every episode.
C21_EvaluationLeavesAgentState ==
    /\ [](pc = "step" /\ time_step = 0 => current_state = TrainingEnv)
    /\ [](pc \in {"step", "episode_end"} /\ time_step > 0 => first_state = TrainingEnv)
    /\ [][pc = "for" /\ pc' = "step" => time_step' = 0]_vars

=============================================================================
